---- MODULE Spec2Model ----
(***************************************************************************)
(* The clients record-management application of supabase-crud.             *)
(*                                                                         *)
(* The repository holds two entry points that serve the /clients routes:   *)
(*   "auth"  : src/unnamed/part_000 lines 1-257, the server with sessions, *)
(*             registration, login, logout and the requireAuth guard;      *)
(*   "index" : src/index.js, the server with the bare /clients routes.     *)
(* The variable `server` says which of them is running.  (Lines 259-414 of *)
(* src/unnamed/part_000 are a third copy: the filtering list handler of    *)
(* "auth" with the unguarded routes of "index"; it adds no handler of its  *)
(* own and is not modelled separately.)                                    *)
(*                                                                         *)
(* A handler is one action per store call it awaits: the request arrives   *)
(* and its first call is answered in one step, and every later call is a   *)
(* step of its own, so that requests interleave at their await points.     *)
(* Every store call may fail (the store answers { error }).  The store has *)
(* no constraint of its own: the repository holds no schema.               *)
(*                                                                         *)
(* Specifications:                                                         *)
(*   Spec           the whole program from an empty store, both servers,   *)
(*                  every handler, MaxRequests requests;                   *)
(*   SpecSequential server "auth" with one request suspended at a time;    *)
(*   SpecClients    the /clients routes, without limit, once a user is     *)
(*                  logged in;                                             *)
(*   SpecQuery      one listing over a fixture, its parameters drawn from  *)
(*                  every text up to MaxTextLen characters.                *)
(***************************************************************************)
EXTENDS Integers, Sequences, FiniteSets, TLC

VARIABLES
    server,     \* the entry point that is running
    users,      \* table users: set of rows
    clients,    \* table clients: set of rows
    clientSeq,  \* the last identifier the store assigned to a client row
    sessions,   \* the session store: session id -> {} or {user projection}
    reqs,       \* the requests suspended at an await: slot -> request
    resp,       \* the last response sent
    budget,     \* the requests the workload may still send (negative: no limit)
    loggedOut   \* history: the sessions that logged out of an authenticated
                \* state and have not completed a login since

vars == <<server, users, clients, clientSeq, sessions, reqs, resp, budget, loggedOut>>

(***************************************************************************)
(* Bounds and fixtures                                                     *)
(***************************************************************************)
MaxUsers == 2
MaxClients == 2
MaxTextLen == 2
MaxRequests == 4

Servers == {"auth", "index"}
SessionIds == {"s1", "s2"}
Slots == {"r1", "r2"}
Usernames == {"u1", "u2"}
Emails == {"e1", "e2"}
Passwords == {"p1", "p2"}
\* The passwords users register with; logins try every password.
RegisterPasswords == {"p1"}
ClientIds == 1 .. MaxClients

\* JavaScript undefined (a parameter that was not sent) and SQL NULL.
Undefined == "undefined"
NULL == "NULL"
\* undefined for a parameter whose text matters (search, phone).
UndefinedText == <<"undefined">>

\* Texts are sequences of characters.
Chars == {" ", "%", "1", "5", "A", "_", "a", "b"}

\* The seeded table client_status: the names order against the identifiers.
ClientStatus == {[id |-> "1", name |-> <<"b">>], [id |-> "2", name |-> <<"a">>]}
StatusIds == {st.id : st \in ClientStatus}

\* What the client forms submit: in the main specification, and in the
\* specification of the client records.
FormStatuses == {"", "1"}
FullNames == {<<"a">>}
PhoneNumbers == {<<"5">>}
StatusInputs == {Undefined, "", "1", "2"}

(***************************************************************************)
(* Text: trim, ILIKE                                                       *)
(***************************************************************************)
IsSpace(c) == c = " "

RECURSIVE TrimStart(_)
TrimStart(t) ==
    IF t # <<>> /\ IsSpace(Head(t)) THEN TrimStart(Tail(t)) ELSE t

RECURSIVE TrimEnd(_)
TrimEnd(t) ==
    IF t # <<>> /\ IsSpace(t[Len(t)]) THEN TrimEnd(SubSeq(t, 1, Len(t) - 1)) ELSE t

\* String.prototype.trim
Trim(t) == TrimEnd(TrimStart(t))

Lower(c) == IF c = "A" THEN "a" ELSE c

\* SQL ILIKE: % matches any run of characters, _ any one character, every
\* other character itself, case-insensitively.
RECURSIVE ILike(_, _)
ILike(t, p) ==
    IF p = <<>> THEN t = <<>>
    ELSE IF Head(p) = "%"
         THEN ILike(t, Tail(p)) \/ (t # <<>> /\ ILike(Tail(t), p))
         ELSE /\ t # <<>>
              /\ Head(p) = "_" \/ Lower(Head(p)) = Lower(Head(t))
              /\ ILike(Tail(t), Tail(p))

\* JavaScript truthiness of a query or body parameter (a string or undefined).
Truthy(v) == v # Undefined /\ v # ""
TruthyText(t) == t # UndefinedText /\ t # <<>>

(***************************************************************************)
(* Requests and responses                                                  *)
(***************************************************************************)
NoUser == {}
\* The session of a request whose handler never reads req.session.
NoSession == "none"
NoParams == [none |-> TRUE]

\* A request as its handler holds it: `io` lists the answers of the store
\* calls it has issued so far ("data" or "error").
Request(route, s, params) == [route |-> route, sid |-> s, params |-> params, io |-> <<>>]
Called(rq, answer) == [rq EXCEPT !.io = Append(@, answer)]

Idle == [route |-> "idle"]
NoResponse ==
    [route |-> "none", sid |-> NoSession, req |-> NoParams, io |-> <<>>,
     kind |-> "none", status |-> 0, to |-> ""]

\* res.redirect(to), res.status(status).send(body), res.render(view, locals).
\* A body is named by what it says, not by its text.
Redirect(rq, to) ==
    [route |-> rq.route, sid |-> rq.sid, req |-> rq.params, io |-> rq.io,
     kind |-> "redirect", status |-> 302, to |-> to]

Send(rq, status, body) ==
    [route |-> rq.route, sid |-> rq.sid, req |-> rq.params, io |-> rq.io,
     kind |-> "send", status |-> status, to |-> body]

Render(rq, view, locals) ==
    [route |-> rq.route, sid |-> rq.sid, req |-> rq.params, io |-> rq.io,
     kind |-> "render", status |-> 200, to |-> view, locals |-> locals]

\* error.message of a failed store call
StoreError == "error.message"

\* A request arrives.
Accept ==
    /\ budget # 0
    /\ budget' = IF budget < 0 THEN budget ELSE budget - 1

\* The slots of `reqs` bound the requests that are suspended at one time.
HasFree == \E r \in DOMAIN reqs : reqs[r] = Idle
FreeSlot == CHOOSE r \in DOMAIN reqs : reqs[r] = Idle

\* The handler awaits: `data` is what it holds across the await.
Suspend(rq, pc, data) ==
    reqs' = [reqs EXCEPT ![FreeSlot] =
                [route |-> rq.route, sid |-> rq.sid, params |-> rq.params,
                 io |-> rq.io, pc |-> pc, data |-> data]]

Suspended(r, route, pc) ==
    /\ reqs[r].route = route
    /\ reqs[r].pc = pc

Resume(r) == reqs' = [reqs EXCEPT ![r] = Idle]

\* The request of slot r, as Request gives it.
Held(r) ==
    [route |-> reqs[r].route, sid |-> reqs[r].sid, params |-> reqs[r].params,
     io |-> reqs[r].io]

(***************************************************************************)
(* Credential store adapter                                                *)
(***************************************************************************)
SaltRounds == 10

\* bcrypt.hash(password, 10) and bcrypt.compare(password, hash)
Hash(password) == [rounds |-> SaltRounds, digest |-> password]
Compare(password, hash) == hash.digest = password

\* .or(`email.eq.${email},username.eq.${username}`)
ExistingUsers(username, email) ==
    {u \in users : u.email = email \/ u.username = username}

\* .eq('email', email)
UsersByEmail(email) == {u \in users : u.email = email}

\* insert([{ username, email, password_hash }]): the store assigns the id.
NewUser(username, email, password) ==
    [id |-> Cardinality(users) + 1, username |-> username, email |-> email,
     password_hash |-> Hash(password)]

\* Mutation of UserProjection: the whole row is kept in the session.
UserProjectionWholeRow(user) == user

\* { id: user.id, username: user.username, email: user.email }
UserProjection(user) ==
    [id |-> user.id, username |-> user.username, email |-> user.email]

(***************************************************************************)
(* Pages without a store call (server "auth")                              *)
(***************************************************************************)
GetHome(s) ==
    /\ server = "auth"
    /\ Accept
    /\ resp' = Render(Request("GET /", s, NoParams), "index", [user |-> sessions[s]])
    /\ UNCHANGED <<server, users, clients, clientSeq, sessions, reqs, loggedOut>>

GetRegister(s) ==
    /\ server = "auth"
    /\ Accept
    /\ resp' = Render(Request("GET /register", s, NoParams), "register",
                      [user |-> sessions[s]])
    /\ UNCHANGED <<server, users, clients, clientSeq, sessions, reqs, loggedOut>>

GetLogin(s) ==
    /\ server = "auth"
    /\ Accept
    /\ resp' = Render(Request("GET /login", s, NoParams), "login",
                      [user |-> sessions[s]])
    /\ UNCHANGED <<server, users, clients, clientSeq, sessions, reqs, loggedOut>>

(***************************************************************************)
(* POST /register: the existence lookup, then the insert                   *)
(***************************************************************************)
\* The request arrives and the lookup is answered.  The handler reads only
\* `data` of the answer: a failed lookup (data null) goes on to the insert.
PostRegister(username, email, password) ==
    /\ server = "auth"
    /\ Accept
    /\ HasFree
    /\ LET rq == Request("POST /register", NoSession,
                         [username |-> username, email |-> email,
                          password |-> password])
       IN  \E ok \in BOOLEAN :
            LET existingUser == IF ok THEN ExistingUsers(username, email) ELSE {}
                answered == Called(rq, IF ok THEN "data" ELSE "error")
            IN  IF existingUser # {}
                THEN /\ resp' = Send(answered, 400, "user exists")
                     /\ UNCHANGED reqs
                ELSE /\ Suspend(answered, "insert", [existingUser |-> existingUser])
                     /\ UNCHANGED resp
    /\ UNCHANGED <<server, users, clients, clientSeq, sessions, loggedOut>>

\* The password is hashed and the insert is answered.
PostRegisterInsert(r) ==
    /\ Suspended(r, "POST /register", "insert")
    /\ LET body == reqs[r].params
       IN  \E ok \in BOOLEAN :
            IF ok
            THEN /\ Cardinality(users) < MaxUsers
                 /\ users' = users \cup
                        {NewUser(body.username, body.email, body.password)}
                 /\ resp' = Redirect(Called(Held(r), "data"), "/login")
            ELSE /\ users' = users
                 /\ resp' = Send(Called(Held(r), "error"), 500, "registration failed")
    /\ Resume(r)
    /\ UNCHANGED <<server, clients, clientSeq, sessions, budget, loggedOut>>

(***************************************************************************)
(* POST /login: the lookup by email, then the password comparison          *)
(***************************************************************************)
\* Mutation of PostLogin: the answer's error is not read, and a failed lookup
\* is taken for an empty one.
PostLoginErrorUnread(s, email, password) ==
    /\ server = "auth"
    /\ Accept
    /\ HasFree
    /\ LET rq == Request("POST /login", s, [email |-> email, password |-> password])
       IN  \E ok \in BOOLEAN :
            IF ~ok \/ UsersByEmail(email) = {}
            THEN /\ resp' = Send(Called(rq, IF ok THEN "data" ELSE "error"),
                                 400, "user not found")
                 /\ UNCHANGED reqs
            ELSE \E user \in UsersByEmail(email) :
                    /\ Suspend(Called(rq, "data"), "compare", [user |-> user])
                    /\ UNCHANGED resp
    /\ UNCHANGED <<server, users, clients, clientSeq, sessions, loggedOut>>

PostLogin(s, email, password) ==
    /\ server = "auth"
    /\ Accept
    /\ HasFree
    /\ LET rq == Request("POST /login", s, [email |-> email, password |-> password])
       IN  \E ok \in BOOLEAN :
            IF ~ok
            THEN /\ resp' = Send(Called(rq, "error"), 500, "login failed")
                 /\ UNCHANGED reqs
            ELSE IF UsersByEmail(email) = {}
                 THEN /\ resp' = Send(Called(rq, "data"), 400, "user not found")
                      /\ UNCHANGED reqs
                 ELSE \* .limit(1) with no order: any one of the matching rows
                      \E user \in UsersByEmail(email) :
                          /\ Suspend(Called(rq, "data"), "compare", [user |-> user])
                          /\ UNCHANGED resp
    /\ UNCHANGED <<server, users, clients, clientSeq, sessions, loggedOut>>

\* Mutation of PostLoginCompare: the user is kept for the whole process, not
\* in the session of the request.
PostLoginCompareShared(r) ==
    /\ Suspended(r, "POST /login", "compare")
    /\ LET user == reqs[r].data.user
           s == reqs[r].sid
       IN  IF ~Compare(reqs[r].params.password, user.password_hash)
           THEN /\ resp' = Send(Held(r), 401, "wrong password")
                /\ UNCHANGED <<sessions, loggedOut>>
           ELSE /\ sessions' = [x \in SessionIds |-> {UserProjection(user)}]
                /\ loggedOut' = loggedOut \ {s}
                /\ resp' = Redirect(Held(r), "/")
    /\ Resume(r)
    /\ UNCHANGED <<server, users, clients, clientSeq, budget>>

PostLoginCompare(r) ==
    /\ Suspended(r, "POST /login", "compare")
    /\ LET user == reqs[r].data.user
           s == reqs[r].sid
       IN  IF ~Compare(reqs[r].params.password, user.password_hash)
           THEN /\ resp' = Send(Held(r), 401, "wrong password")
                /\ UNCHANGED <<sessions, loggedOut>>
           ELSE /\ sessions' = [sessions EXCEPT ![s] = {UserProjection(user)}]
                /\ loggedOut' = loggedOut \ {s}
                /\ resp' = Redirect(Held(r), "/")
    /\ Resume(r)
    /\ UNCHANGED <<server, users, clients, clientSeq, budget>>

(***************************************************************************)
(* GET /logout                                                             *)
(***************************************************************************)
\* Mutation of GetLogout: a session with no user is refused.
GetLogoutRefused(s) ==
    /\ server = "auth"
    /\ Accept
    /\ sessions' = [sessions EXCEPT ![s] = NoUser]
    /\ loggedOut' = IF sessions[s] # NoUser THEN loggedOut \cup {s} ELSE loggedOut
    /\ resp' = IF sessions[s] # NoUser
               THEN Redirect(Request("GET /logout", s, NoParams), "/")
               ELSE Send(Request("GET /logout", s, NoParams), 400, "not logged in")
    /\ UNCHANGED <<server, users, clients, clientSeq, reqs>>

\* Mutation of GetLogout: the redirect without the destroy.
GetLogoutUndestroyed(s) ==
    /\ server = "auth"
    /\ Accept
    /\ loggedOut' = IF sessions[s] # NoUser THEN loggedOut \cup {s} ELSE loggedOut
    /\ resp' = Redirect(Request("GET /logout", s, NoParams), "/")
    /\ UNCHANGED <<server, users, clients, clientSeq, sessions, reqs>>

\* req.session.destroy(() => res.redirect('/'))
GetLogout(s) ==
    /\ server = "auth"
    /\ Accept
    /\ sessions' = [sessions EXCEPT ![s] = NoUser]
    /\ loggedOut' = IF sessions[s] # NoUser THEN loggedOut \cup {s} ELSE loggedOut
    /\ resp' = Redirect(Request("GET /logout", s, NoParams), "/")
    /\ UNCHANGED <<server, users, clients, clientSeq, reqs>>

(***************************************************************************)
(* Access guard                                                            *)
(***************************************************************************)
\* requireAuth calls next() exactly when req.session.user is set ...
RequireAuth(s) == sessions[s] # NoUser

\* ... and otherwise answers with the redirect, and the handler never runs.
Denied(rq) ==
    /\ resp' = Redirect(rq, "/login")
    /\ UNCHANGED <<server, users, clients, clientSeq, sessions, reqs, loggedOut>>

(***************************************************************************)
(* Query builder of GET /clients (server "auth")                           *)
(***************************************************************************)
\* Mutation of SearchFilter: if (search) query.ilike('full_name', `%${search}%`)
SearchFilterUntrimmed(q) ==
    IF TruthyText(q.search)
    THEN {[op |-> "ilike", column |-> "full_name",
           pattern |-> <<"%">> \o q.search \o <<"%">>]}
    ELSE {}

\* if (search && search.trim() !== '') query.ilike('full_name', `%${search.trim()}%`)
SearchFilter(q) ==
    IF TruthyText(q.search) /\ Trim(q.search) # <<>>
    THEN {[op |-> "ilike", column |-> "full_name",
           pattern |-> <<"%">> \o Trim(q.search) \o <<"%">>]}
    ELSE {}

\* if (status && status !== 'all') query.eq('status_id', status)
StatusFilter(q) ==
    IF Truthy(q.status) /\ q.status # "all"
    THEN {[op |-> "eq", column |-> "status_id", value |-> q.status]}
    ELSE {}

\* if (phone && phone.trim() !== '') query.ilike('phone_number', `%${phone.trim()}%`)
PhoneFilter(q) ==
    IF TruthyText(q.phone) /\ Trim(q.phone) # <<>>
    THEN {[op |-> "ilike", column |-> "phone_number",
           pattern |-> <<"%">> \o Trim(q.phone) \o <<"%">>]}
    ELSE {}

\* Mutation of OrderOf: 'status' orders by the reference, not by the name.
OrderOfByReference(q) ==
    IF Truthy(q.sort_by)
    THEN LET order == IF q.sort_order = "desc" THEN FALSE ELSE TRUE
         IN  IF q.sort_by = "status"
             THEN [column |-> "status_id", ascending |-> order]
             ELSE [column |-> q.sort_by, ascending |-> order]
    ELSE [column |-> "id", ascending |-> TRUE]

\* The sort: `ascending` is false exactly when sort_order is 'desc'.
OrderOf(q) ==
    IF Truthy(q.sort_by)
    THEN LET order == IF q.sort_order = "desc" THEN FALSE ELSE TRUE
         IN  IF q.sort_by = "status"
             THEN [column |-> "client_status(name)", ascending |-> order]
             ELSE [column |-> q.sort_by, ascending |-> order]
    ELSE [column |-> "id", ascending |-> TRUE]

BuildQuery(q) ==
    [filters |-> SearchFilter(q) \cup StatusFilter(q) \cup PhoneFilter(q),
     order |-> OrderOf(q)]

(***************************************************************************)
(* The store's side of a select on clients                                 *)
(***************************************************************************)
\* select(`*, client_status:status_id (name)`): the row with the name of its
\* status, which is absent when status_id is null.
Embed(row) ==
    [id |-> row.id, full_name |-> row.full_name, phone_number |-> row.phone_number,
     status_id |-> row.status_id,
     client_status |-> {st.name : st \in {x \in ClientStatus : x.id = row.status_id}}]

Satisfies(row, f) ==
    CASE f.op = "ilike" -> ILike(row[f.column], f.pattern)
      [] f.op = "eq" -> row[f.column] # NULL /\ row[f.column] = f.value

Matching(filters) ==
    {Embed(c) : c \in {x \in clients : \A f \in filters : Satisfies(x, f)}}

OrderColumns == {"id", "full_name", "phone_number", "status_id", "client_status(name)"}

CharCode(c) ==
    CASE c = " " -> 32 [] c = "%" -> 37 [] c = "1" -> 49 [] c = "5" -> 53
      [] c = "A" -> 65 [] c = "_" -> 95 [] c = "a" -> 97 [] c = "b" -> 98

RECURSIVE TextLess(_, _)
TextLess(a, b) ==
    IF b = <<>> THEN FALSE
    ELSE IF a = <<>> THEN TRUE
    ELSE IF Head(a) # Head(b) THEN CharCode(Head(a)) < CharCode(Head(b))
    ELSE TextLess(Tail(a), Tail(b))

\* The bigint a numeric text stands for.
Num(t) == CASE t = "1" -> 1 [] t = "2" -> 2 [] OTHER -> 0

StatusName(row) == CHOOSE n \in row.client_status : TRUE

KeyIsNull(row, column) ==
    \/ column = "status_id" /\ row.status_id = NULL
    \/ column = "client_status(name)" /\ row.client_status = {}

\* ORDER BY: a null key is greater than every value (NULLS LAST ascending,
\* NULLS FIRST descending).
KeyLess(a, b, column) ==
    IF KeyIsNull(a, column) THEN FALSE
    ELSE IF KeyIsNull(b, column) THEN TRUE
    ELSE CASE column = "id" -> a.id < b.id
           [] column = "status_id" -> Num(a.status_id) < Num(b.status_id)
           [] column = "client_status(name)" -> TextLess(StatusName(a), StatusName(b))
           [] OTHER -> TextLess(a[column], b[column])

Perms(S) ==
    {p \in [1 .. Cardinality(S) -> S] :
        \A i, j \in 1 .. Cardinality(S) : i # j => p[i] # p[j]}

IsOrdered(p, order) ==
    \A i, j \in 1 .. Len(p) :
        i < j => IF order.ascending THEN ~KeyLess(p[j], p[i], order.column)
                                    ELSE ~KeyLess(p[i], p[j], order.column)

\* Every answer the store may give: rows with equal keys come in any order.
Orderings(S, order) == {p \in Perms(S) : IsOrdered(p, order)}

\* from('client_status').select('*').order('id')
SelectStatuses ==
    CHOOSE p \in Perms(ClientStatus) :
        \A i, j \in 1 .. Len(p) : i < j => Num(p[i].id) < Num(p[j].id)


(***************************************************************************)
(* Record mutation gateway: what a handler does once it runs               *)
(***************************************************************************)
\* Mutation of OrNull: status_id ?? null
OrNullish(status_id) == IF status_id = Undefined THEN NULL ELSE status_id

\* status_id || null
OrNull(status_id) == IF Truthy(status_id) THEN status_id ELSE NULL

ClientBody(full_name, phone_number, status_id) ==
    [full_name |-> full_name, phone_number |-> phone_number, status_id |-> status_id]

ClientParams(id, full_name, phone_number, status_id) ==
    [id |-> id, full_name |-> full_name, phone_number |-> phone_number,
     status_id |-> status_id]

\* insert([{ full_name, phone_number, status_id: status_id || null }])
InsertClient(rq) ==
    /\ \E ok \in BOOLEAN :
        IF ok
        THEN /\ clientSeq < MaxClients
             /\ clientSeq' = clientSeq + 1
             /\ clients' = clients \cup
                    {[id |-> clientSeq + 1, full_name |-> rq.params.full_name,
                      phone_number |-> rq.params.phone_number,
                      status_id |-> OrNull(rq.params.status_id)]}
             /\ resp' = Redirect(Called(rq, "data"), "/clients")
        ELSE /\ UNCHANGED <<clients, clientSeq>>
             /\ resp' = Send(Called(rq, "error"), 200, StoreError)
    /\ UNCHANGED <<server, users, sessions, reqs, loggedOut>>

\* Mutation of UpdateClient: update(...) without .eq('id', id).
UpdateClientEvery(rq) ==
    /\ \E ok \in BOOLEAN :
        IF ok
        THEN /\ clients' =
                    {[c EXCEPT !.full_name = rq.params.full_name,
                               !.phone_number = rq.params.phone_number,
                               !.status_id = OrNull(rq.params.status_id)] : c \in clients}
             /\ resp' = Redirect(Called(rq, "data"), "/clients")
        ELSE /\ UNCHANGED clients
             /\ resp' = Send(Called(rq, "error"), 200, StoreError)
    /\ UNCHANGED <<server, users, clientSeq, sessions, reqs, loggedOut>>

\* Mutation of UpdateClient: the answer's error is not read.
UpdateClientErrorUnread(rq) ==
    /\ \E ok \in BOOLEAN :
        IF ok
        THEN /\ clients' =
                    {IF c.id = rq.params.id
                     THEN [c EXCEPT !.full_name = rq.params.full_name,
                                    !.phone_number = rq.params.phone_number,
                                    !.status_id = OrNull(rq.params.status_id)]
                     ELSE c : c \in clients}
             /\ resp' = Redirect(Called(rq, "data"), "/clients")
        ELSE /\ UNCHANGED clients
             /\ resp' = Redirect(Called(rq, "error"), "/clients")
    /\ UNCHANGED <<server, users, clientSeq, sessions, reqs, loggedOut>>

\* update({ full_name, phone_number, status_id: status_id || null }).eq('id', id)
UpdateClient(rq) ==
    /\ \E ok \in BOOLEAN :
        IF ok
        THEN /\ clients' =
                    {IF c.id = rq.params.id
                     THEN [c EXCEPT !.full_name = rq.params.full_name,
                                    !.phone_number = rq.params.phone_number,
                                    !.status_id = OrNull(rq.params.status_id)]
                     ELSE c : c \in clients}
             /\ resp' = Redirect(Called(rq, "data"), "/clients")
        ELSE /\ UNCHANGED clients
             /\ resp' = Send(Called(rq, "error"), 200, StoreError)
    /\ UNCHANGED <<server, users, clientSeq, sessions, reqs, loggedOut>>

\* Mutation of DeleteClient: the row stays.
DeleteClientKept(rq) ==
    /\ \E ok \in BOOLEAN :
        IF ok
        THEN /\ clients' = clients
             /\ resp' = Redirect(Called(rq, "data"), "/clients")
        ELSE /\ UNCHANGED clients
             /\ resp' = Send(Called(rq, "error"), 200, StoreError)
    /\ UNCHANGED <<server, users, clientSeq, sessions, reqs, loggedOut>>

\* delete().eq('id', id)
DeleteClient(rq) ==
    /\ \E ok \in BOOLEAN :
        IF ok
        THEN /\ clients' = {c \in clients : c.id # rq.params.id}
             /\ resp' = Redirect(Called(rq, "data"), "/clients")
        ELSE /\ UNCHANGED clients
             /\ resp' = Send(Called(rq, "error"), 200, StoreError)
    /\ UNCHANGED <<server, users, clientSeq, sessions, reqs, loggedOut>>

\* The creation form: one read of client_status.
NewForm(rq, locals) ==
    /\ \E ok \in BOOLEAN :
        IF ok
        THEN resp' = Render(Called(rq, "data"), "clients/new", locals)
        ELSE resp' = Send(Called(rq, "error"), 200, StoreError)
    /\ UNCHANGED <<server, users, clients, clientSeq, sessions, reqs, loggedOut>>

\* Mutation of FetchClient: .maybeSingle(), which answers no row with data
\* null and no error.
FetchClientMaybeSingle(rq, user) ==
    /\ HasFree
    /\ LET found == {c \in clients : c.id = rq.params.id}
       IN  \E ok \in BOOLEAN :
            IF ok /\ Cardinality(found) <= 1
            THEN /\ Suspend(Called(rq, "data"), "statuses",
                            [client |-> IF found = {} THEN [id |-> NULL]
                                        ELSE CHOOSE c \in found : TRUE,
                             user |-> user])
                 /\ UNCHANGED resp
            ELSE /\ resp' = Send(Called(rq, "error"), 200, StoreError)
                 /\ UNCHANGED reqs
    /\ UNCHANGED <<server, users, clients, clientSeq, sessions, loggedOut>>

\* The edit form: .eq('id', id).single() fails unless exactly one row matches.
\* `user` is req.session.user of the request.
FetchClient(rq, user) ==
    /\ HasFree
    /\ LET found == {c \in clients : c.id = rq.params.id}
       IN  \E ok \in BOOLEAN :
            IF ok /\ Cardinality(found) = 1
            THEN /\ Suspend(Called(rq, "data"), "statuses",
                            [client |-> CHOOSE c \in found : TRUE, user |-> user])
                 /\ UNCHANGED resp
            ELSE /\ resp' = Send(Called(rq, "error"), 200, StoreError)
                 /\ UNCHANGED reqs
    /\ UNCHANGED <<server, users, clients, clientSeq, sessions, loggedOut>>

\* ... then the read of client_status, and the form is rendered.
EditForm(r) ==
    /\ Suspended(r, "GET /clients/:id/edit", "statuses")
    /\ \E ok \in BOOLEAN :
        IF ok
        THEN resp' = Render(Called(Held(r), "data"), "clients/edit",
                            IF server = "auth"
                            THEN [client |-> reqs[r].data.client,
                                  statuses |-> SelectStatuses,
                                  user |-> reqs[r].data.user]
                            ELSE [client |-> reqs[r].data.client,
                                  statuses |-> SelectStatuses])
        ELSE resp' = Send(Called(Held(r), "error"), 200, StoreError)
    /\ Resume(r)
    /\ UNCHANGED <<server, users, clients, clientSeq, sessions, budget, loggedOut>>

(***************************************************************************)
(* The guarded /clients routes of server "auth"                            *)
(***************************************************************************)
\* What the store answers to the composed query: a set of possible row
\* sequences, empty when it answers { error } (an unknown order column).
SelectClients(query) ==
    IF query.order.column \in OrderColumns
    THEN Orderings(Matching(query.filters), query.order)
    ELSE {}

\* GET /clients: the guard, the composed query ...
GetClients(s, q) ==
    /\ server = "auth"
    /\ Accept
    /\ LET rq == Request("GET /clients", s, q)
       IN  IF ~RequireAuth(s)
           THEN Denied(rq)
           ELSE /\ HasFree
                /\ \E ok \in BOOLEAN :
                    IF ok /\ SelectClients(BuildQuery(q)) # {}
                    THEN \E rows \in SelectClients(BuildQuery(q)) :
                            /\ Suspend(Called(rq, "data"), "statuses",
                                       [rows |-> rows, user |-> sessions[s]])
                            /\ UNCHANGED resp
                    ELSE /\ resp' = Send(Called(rq, "error"), 200, StoreError)
                         /\ UNCHANGED reqs
                /\ UNCHANGED <<server, users, clients, clientSeq, sessions, loggedOut>>

\* Mutation of GetClientsStatuses: statusError is not read.
GetClientsStatusesErrorUnread(r) ==
    /\ Suspended(r, "GET /clients", "statuses")
    /\ \E ok \in BOOLEAN :
        resp' = Render(Called(Held(r), IF ok THEN "data" ELSE "error"), "clients/index",
                       [clients |-> reqs[r].data.rows,
                        statuses |-> IF ok THEN SelectStatuses ELSE <<>>,
                        user |-> reqs[r].data.user, filters |-> reqs[r].params])
    /\ Resume(r)
    /\ UNCHANGED <<server, users, clients, clientSeq, sessions, budget, loggedOut>>

\* ... then the read of client_status, and the listing is rendered.
GetClientsStatuses(r) ==
    /\ Suspended(r, "GET /clients", "statuses")
    /\ \E ok \in BOOLEAN :
        IF ok
        THEN resp' = Render(Called(Held(r), "data"), "clients/index",
                            [clients |-> reqs[r].data.rows, statuses |-> SelectStatuses,
                             user |-> reqs[r].data.user, filters |-> reqs[r].params])
        ELSE resp' = Send(Called(Held(r), "error"), 200, StoreError)
    /\ Resume(r)
    /\ UNCHANGED <<server, users, clients, clientSeq, sessions, budget, loggedOut>>

GetClientsNew(s) ==
    /\ server = "auth"
    /\ Accept
    /\ LET rq == Request("GET /clients/new", s, NoParams)
       IN  IF ~RequireAuth(s)
           THEN Denied(rq)
           ELSE NewForm(rq, [statuses |-> SelectStatuses, user |-> sessions[s]])

PostClients(s, full_name, phone_number, status_id) ==
    /\ server = "auth"
    /\ Accept
    /\ LET rq == Request("POST /clients", s,
                         ClientBody(full_name, phone_number, status_id))
       IN  IF ~RequireAuth(s) THEN Denied(rq) ELSE InsertClient(rq)

GetClientEdit(s, id) ==
    /\ server = "auth"
    /\ Accept
    /\ LET rq == Request("GET /clients/:id/edit", s, [id |-> id])
       IN  IF ~RequireAuth(s) THEN Denied(rq) ELSE FetchClient(rq, sessions[s])

GetClientEditStatuses(r) ==
    /\ server = "auth"
    /\ EditForm(r)

PutClient(s, id, full_name, phone_number, status_id) ==
    /\ server = "auth"
    /\ Accept
    /\ LET rq == Request("PUT /clients/:id", s,
                         ClientParams(id, full_name, phone_number, status_id))
       IN  IF ~RequireAuth(s) THEN Denied(rq) ELSE UpdateClient(rq)

DeleteClientById(s, id) ==
    /\ server = "auth"
    /\ Accept
    /\ LET rq == Request("DELETE /clients/:id", s, [id |-> id])
       IN  IF ~RequireAuth(s) THEN Denied(rq) ELSE DeleteClient(rq)

(***************************************************************************)
(* The routes of server "index" (src/index.js): no session, no guard       *)
(***************************************************************************)
IndexGetHome(s) ==
    /\ server = "index"
    /\ Accept
    /\ resp' = Render(Request("GET /", s, NoParams), "index", NoParams)
    /\ UNCHANGED <<server, users, clients, clientSeq, sessions, reqs, loggedOut>>

\* GET /clients: every row, ordered by id; the query string is not read.
IndexGetClients(s, q) ==
    /\ server = "index"
    /\ Accept
    /\ LET rq == Request("GET /clients", s, q)
       IN  \E ok \in BOOLEAN :
            IF ok
            THEN \E rows \in Orderings(Matching({}), [column |-> "id", ascending |-> TRUE]) :
                    resp' = Render(Called(rq, "data"), "clients/index", [clients |-> rows])
            ELSE resp' = Send(Called(rq, "error"), 200, StoreError)
    /\ UNCHANGED <<server, users, clients, clientSeq, sessions, reqs, loggedOut>>

IndexGetClientsNew(s) ==
    /\ server = "index"
    /\ Accept
    /\ NewForm(Request("GET /clients/new", s, NoParams), [statuses |-> SelectStatuses])

IndexPostClients(s, full_name, phone_number, status_id) ==
    /\ server = "index"
    /\ Accept
    /\ InsertClient(Request("POST /clients", s,
                            ClientBody(full_name, phone_number, status_id)))

IndexGetClientEdit(s, id) ==
    /\ server = "index"
    /\ Accept
    /\ FetchClient(Request("GET /clients/:id/edit", s, [id |-> id]), NoUser)

IndexGetClientEditStatuses(r) ==
    /\ server = "index"
    /\ EditForm(r)

IndexPutClient(s, id, full_name, phone_number, status_id) ==
    /\ server = "index"
    /\ Accept
    /\ UpdateClient(Request("PUT /clients/:id", s,
                            ClientParams(id, full_name, phone_number, status_id)))

IndexDeleteClient(s, id) ==
    /\ server = "index"
    /\ Accept
    /\ DeleteClient(Request("DELETE /clients/:id", s, [id |-> id]))

(***************************************************************************)
(* The whole program                                                       *)
(***************************************************************************)
NoFilter ==
    [search |-> UndefinedText, status |-> Undefined, phone |-> UndefinedText,
     sort_by |-> Undefined, sort_order |-> Undefined]

ListQueries == {NoFilter} \cup {[NoFilter EXCEPT !.status = i] : i \in StatusIds}

Init ==
    /\ server \in Servers
    /\ users = {}
    /\ clients = {}
    /\ clientSeq = 0
    /\ sessions = [s \in SessionIds |-> NoUser]
    /\ reqs = [r \in Slots |-> Idle]
    /\ resp = NoResponse
    /\ budget = MaxRequests
    /\ loggedOut = {}

NextAuth ==
    \/ \E s \in SessionIds : GetHome(s)
    \/ \E s \in SessionIds : GetRegister(s)
    \/ \E s \in SessionIds : GetLogin(s)
    \/ \E u \in Usernames, e \in Emails, p \in RegisterPasswords :
            PostRegister(u, e, p)
    \/ \E r \in DOMAIN reqs : PostRegisterInsert(r)
    \/ \E s \in SessionIds, e \in Emails, p \in Passwords : PostLogin(s, e, p)
    \/ \E r \in DOMAIN reqs : PostLoginCompare(r)
    \/ \E s \in SessionIds : GetLogout(s)
    \/ \E s \in SessionIds : GetClients(s, NoFilter)
    \/ \E r \in DOMAIN reqs : GetClientsStatuses(r)
    \/ \E s \in SessionIds : GetClientsNew(s)
    \/ \E s \in SessionIds, st \in FormStatuses :
            PostClients(s, <<"a">>, <<"5">>, st)
    \/ \E s \in SessionIds, id \in ClientIds : GetClientEdit(s, id)
    \/ \E r \in DOMAIN reqs : GetClientEditStatuses(r)
    \/ \E s \in SessionIds, id \in ClientIds, st \in FormStatuses :
            PutClient(s, id, <<"a">>, <<"5">>, st)
    \/ \E s \in SessionIds, id \in ClientIds : DeleteClientById(s, id)

NextIndex ==
    \/ \E s \in SessionIds : IndexGetHome(s)
    \/ \E s \in SessionIds : IndexGetClients(s, NoFilter)
    \/ \E s \in SessionIds : IndexGetClientsNew(s)
    \/ \E s \in SessionIds, st \in FormStatuses :
            IndexPostClients(s, <<"a">>, <<"5">>, st)
    \/ \E s \in SessionIds, id \in ClientIds : IndexGetClientEdit(s, id)
    \/ \E r \in DOMAIN reqs : IndexGetClientEditStatuses(r)
    \/ \E s \in SessionIds, id \in ClientIds, st \in FormStatuses :
            IndexPutClient(s, id, <<"a">>, <<"5">>, st)
    \/ \E s \in SessionIds, id \in ClientIds : IndexDeleteClient(s, id)

Next == NextAuth \/ NextIndex

Spec == Init /\ [][Next]_vars

(***************************************************************************)
(* Server "auth" with one request suspended at a time: the requests that   *)
(* await the store are processed one after another.                        *)
(***************************************************************************)
InitSequential ==
    /\ server = "auth"
    /\ users = {}
    /\ clients = {}
    /\ clientSeq = 0
    /\ sessions = [s \in SessionIds |-> NoUser]
    /\ reqs = [r \in {"r1"} |-> Idle]
    /\ resp = NoResponse
    /\ budget = MaxRequests
    /\ loggedOut = {}

SpecSequential == InitSequential /\ [][NextAuth]_vars

(***************************************************************************)
(* The client records: a user is registered and session "s1" is logged in  *)
(* (a state Spec reaches), and the /clients routes are requested without   *)
(* limit, with every form input.                                           *)
(***************************************************************************)
SeedUser ==
    [id |-> 1, username |-> "u1", email |-> "e1", password_hash |-> Hash("p1")]

LoggedIn ==
    /\ users = {SeedUser}
    /\ sessions = [s \in SessionIds |->
                      IF s = "s1" THEN {UserProjection(SeedUser)} ELSE NoUser]
    /\ loggedOut = {}

InitClients ==
    /\ server \in Servers
    /\ LoggedIn
    /\ clients = {}
    /\ clientSeq = 0
    /\ reqs = [r \in {"r1"} |-> Idle]
    /\ resp = NoResponse
    /\ budget = 0 - 1

NextClients ==
    \/ \E q \in ListQueries : GetClients("s1", q)
    \/ \E r \in DOMAIN reqs : GetClientsStatuses(r)
    \/ GetClientsNew("s1")
    \/ \E n \in FullNames, ph \in PhoneNumbers, st \in StatusInputs :
            PostClients("s1", n, ph, st)
    \/ \E id \in ClientIds : GetClientEdit("s1", id)
    \/ \E r \in DOMAIN reqs : GetClientEditStatuses(r)
    \/ \E id \in ClientIds, n \in FullNames, ph \in PhoneNumbers, st \in StatusInputs :
            PutClient("s1", id, n, ph, st)
    \/ \E id \in ClientIds : DeleteClientById("s1", id)
    \/ \E q \in ListQueries : IndexGetClients("s1", q)
    \/ IndexGetClientsNew("s1")
    \/ \E n \in FullNames, ph \in PhoneNumbers, st \in StatusInputs :
            IndexPostClients("s1", n, ph, st)
    \/ \E id \in ClientIds : IndexGetClientEdit("s1", id)
    \/ \E r \in DOMAIN reqs : IndexGetClientEditStatuses(r)
    \/ \E id \in ClientIds, n \in FullNames, ph \in PhoneNumbers, st \in StatusInputs :
            IndexPutClient("s1", id, n, ph, st)
    \/ \E id \in ClientIds : IndexDeleteClient("s1", id)

SpecClients == InitClients /\ [][NextClients]_vars

(***************************************************************************)
(* The query builder: the table holds two or three rows of a fixture,      *)
(* session "s1" is logged in, and one listing is requested with its        *)
(* parameters drawn from every text up to MaxTextLen characters.            *)
(***************************************************************************)
Texts(chars) == UNION {[1 .. k -> chars] : k \in 0 .. MaxTextLen}

Fixture ==
    {[id |-> 1, full_name |-> <<"a", "b">>, phone_number |-> <<"5", "1">>,
      status_id |-> "2"],
     [id |-> 2, full_name |-> <<"A">>, phone_number |-> <<"5">>, status_id |-> "1"],
     [id |-> 3, full_name |-> <<"b">>, phone_number |-> <<"1">>, status_id |-> NULL]}

SearchInputs == {UndefinedText} \cup Texts({"a", "A", " ", "_", "%"})
PhoneInputs == {UndefinedText} \cup Texts({"5", " "})
StatusSelectors == {Undefined, "", "all", "1", "2"}
SortKeys == {Undefined, "", "status", "status_id", "id", "full_name"}
SortOrders == {Undefined, "asc", "desc", "DESC"}

Queries ==
    [search : SearchInputs, status : StatusSelectors, phone : PhoneInputs,
     sort_by : SortKeys, sort_order : SortOrders]

InitQuery ==
    /\ server = "auth"
    /\ LoggedIn
    /\ clients \in {T \in SUBSET Fixture : Cardinality(T) >= 2}
    /\ clientSeq = Cardinality(Fixture)
    /\ reqs = [r \in {"r1"} |-> Idle]
    /\ resp = NoResponse
    /\ budget = 1

NextQuery ==
    \/ budget # 0 /\ \E q \in Queries : GetClients("s1", q)
    \/ \E r \in DOMAIN reqs : GetClientsStatuses(r)

SpecQuery == InitQuery /\ [][NextQuery]_vars

(***************************************************************************)
(* Properties                                                              *)
(***************************************************************************)
ProtectedRoutes ==
    {"GET /clients", "GET /clients/new", "POST /clients", "GET /clients/:id/edit",
     "PUT /clients/:id", "DELETE /clients/:id"}

\* In this step a request of session s on `route` arrives (the workload of
\* Spec, SpecSequential and SpecQuery is counted by `budget`): the request is
\* either suspended in a slot or answered by resp'.
Arrived(s, route) ==
    /\ budget' # budget
    /\ IF reqs' # reqs
       THEN \E r \in DOMAIN reqs :
                /\ reqs[r] = Idle
                /\ reqs'[r] # Idle
                /\ reqs'[r].route = route
                /\ reqs'[r].sid = s
       ELSE resp'.route = route /\ resp'.sid = s

\* The answer of the guard to the request that resp' answers.
GuardRedirect(s, route) ==
    /\ resp' = Redirect(Request(route, s, resp'.req), "/login")
    /\ reqs' = reqs
    /\ clients' = clients

Rows(seq) == {seq[i] : i \in 1 .. Len(seq)}
Listing(rs) == rs.route = "GET /clients" /\ rs.kind = "render"
Succeeded(rs, route) == rs.route = route /\ rs.kind = "redirect" /\ rs.to = "/clients"

\* C1: a request to a protected route (the six /clients routes) from a
\* session with no authenticated user is answered with a redirect to /login,
\* the store is neither read nor written for it, and the client records are
\* left as they were.
C1_AnonymousIsRedirected ==
    [][\A s \in SessionIds, route \in ProtectedRoutes :
          (sessions[s] = NoUser /\ Arrived(s, route)) => GuardRedirect(s, route)]_vars

\* C1 on the server of src/unnamed/part_000 alone, where every /clients
\* route is registered behind requireAuth.
C1_GuardedServer ==
    [][\A s \in SessionIds, route \in ProtectedRoutes :
          (server = "auth" /\ sessions[s] = NoUser /\ Arrived(s, route))
              => GuardRedirect(s, route)]_vars

\* C2: once a session that was authenticated has completed a logout, every
\* later request of that session to a protected route is answered with the
\* redirect to /login, until that session completes a new successful login.
C2_LoggedOutIsRedirected ==
    [][\A s \in loggedOut, route \in ProtectedRoutes :
          Arrived(s, route) => GuardRedirect(s, route)]_vars

C2_Witness ==
    /\ resp.sid \in loggedOut
    /\ resp.route \in ProtectedRoutes
    /\ resp.kind = "redirect"
    /\ resp.to = "/login"

\* C3: a login fails in three distinguishable ways: an unknown email is
\* answered 400 (not found), a known email with a wrong password 401, a
\* failed lookup 500 with a generic message; and no failure changes a
\* session, so a session that was anonymous stays anonymous.
C3_LoginFailures ==
    [][/\ \A s \in SessionIds :
            (Arrived(s, "POST /login") /\ reqs' = reqs) =>
                /\ sessions' = sessions
                /\ resp'.kind = "send"
                /\ IF resp'.io = <<"error">>
                   THEN resp'.status = 500 /\ resp'.to = "login failed"
                   ELSE /\ resp'.status = 400
                        /\ resp'.to = "user not found"
                        /\ \A u \in users : u.email # resp'.req.email
       /\ \A s \in SessionIds :
            (Arrived(s, "POST /login") /\ reqs' # reqs) =>
                /\ sessions' = sessions
                /\ \E r \in DOMAIN reqs :
                    /\ reqs'[r] # reqs[r]
                    /\ reqs'[r].io = <<"data">>
                    /\ reqs'[r].data.user \in users
                    /\ reqs'[r].data.user.email = reqs'[r].params.email
       /\ \A r \in DOMAIN reqs :
            (reqs[r].route = "POST /login" /\ reqs'[r] = Idle) =>
                IF Compare(reqs[r].params.password, reqs[r].data.user.password_hash)
                THEN resp'.kind = "redirect"
                ELSE /\ resp'.kind = "send"
                     /\ resp'.status = 401
                     /\ resp'.to = "wrong password"
                     /\ sessions' = sessions]_vars

C3_Witness ==
    /\ resp.route = "POST /login"
    /\ resp.status = 401
    /\ sessions[resp.sid] = NoUser
    /\ \E u \in users : u.email = resp.req.email

\* C4: a session is authenticated only by a login of that session that
\* found a user by its exact email and verified the submitted password
\* against that user's stored hash; an authenticated session holds exactly
\* the identifier, username and email of a user, and never the hash.
C4_SessionHolds ==
    \A s \in SessionIds :
        sessions[s] # NoUser =>
            \E u \in users :
                sessions[s] = {[id |-> u.id, username |-> u.username, email |-> u.email]}

C4_SessionSet ==
    \A s \in SessionIds :
        (sessions'[s] # sessions[s] /\ sessions'[s] # NoUser) =>
            \E r \in DOMAIN reqs, u \in users :
                /\ reqs[r].route = "POST /login"
                /\ reqs[r].sid = s
                /\ reqs'[r] = Idle
                /\ u.email = reqs[r].params.email
                /\ Compare(reqs[r].params.password, u.password_hash)
                /\ sessions'[s] = {[id |-> u.id, username |-> u.username,
                                    email |-> u.email]}

C4_SessionFromVerifiedLogin == []C4_SessionHolds /\ [][C4_SessionSet]_vars

C4_Witness ==
    /\ resp.route = "POST /login"
    /\ resp.kind = "redirect"
    /\ sessions[resp.sid] # NoUser
    /\ \E u \in users :
        /\ u.email = resp.req.email
        /\ sessions[resp.sid] = {[id |-> u.id, username |-> u.username, email |-> u.email]}

\* C5 (the two rejections): with registrations processed one after another,
\* a registration whose email, or whose username, equals that of an
\* existing user is rejected and adds no user row.
C5_CollisionIsRejected ==
    [][\A r \in DOMAIN reqs :
          (/\ reqs[r].route = "POST /register"
           /\ reqs'[r] = Idle
           /\ \E u \in users : \/ u.email = reqs[r].params.email
                               \/ u.username = reqs[r].params.username)
              => users' = users /\ resp'.kind = "send"]_vars

\* C6: a status reference submitted absent or empty, on create or on update,
\* is persisted as null, and no record ever holds the empty string (or
\* undefined) as its status reference.
C6_BlankStatusIsNull ==
    /\ \A c \in clients : c.status_id # "" /\ c.status_id # Undefined
    /\ (Succeeded(resp, "POST /clients") /\ resp.req.status_id \in {Undefined, ""})
            => \E c \in clients : c.id = clientSeq /\ c.status_id = NULL
    /\ (Succeeded(resp, "PUT /clients/:id") /\ resp.req.status_id \in {Undefined, ""})
            => \A c \in clients : c.id = resp.req.id => c.status_id = NULL

C6_Witness ==
    /\ Succeeded(resp, "PUT /clients/:id")
    /\ resp.req.status_id = ""
    /\ \E c \in clients : c.id = resp.req.id /\ c.status_id = NULL

\* A text contains another, case-insensitively: some run of its characters
\* equals it up to case.
ContainsText(t, x) ==
    \E i \in 0 .. Len(t) - Len(x) :
        \A j \in 1 .. Len(x) : Lower(t[i + j]) = Lower(x[j])

\* The conjunction of the active filters, as a predicate on a client row:
\* a text filter is active when it is present and not blank once trimmed,
\* the status filter when it is present, not empty and not "all".
SatisfiesActive(c, q) ==
    /\ (q.search # UndefinedText /\ Trim(q.search) # <<>>)
            => ContainsText(c.full_name, Trim(q.search))
    /\ q.status \notin {Undefined, "", "all"} => c.status_id = q.status
    /\ (q.phone # UndefinedText /\ Trim(q.phone) # <<>>)
            => ContainsText(c.phone_number, Trim(q.phone))

\* C7: a listing returns exactly the client records that satisfy the
\* conjunction of the active filters: the name contains the trimmed search
\* text case-insensitively, the status reference equals the given status,
\* the phone number contains the trimmed phone text.
C7_ListingIsExact ==
    Listing(resp) =>
        {row.id : row \in Rows(resp.locals.clients)}
            = {c.id : c \in {x \in clients : SatisfiesActive(x, resp.req)}}

\* C7 for the texts that hold neither of the pattern characters % and _.
C7_LiteralText ==
    (/\ Listing(resp)
     /\ \A i \in 1 .. Len(resp.req.search) : resp.req.search[i] \notin {"%", "_"}
     /\ \A i \in 1 .. Len(resp.req.phone) : resp.req.phone[i] \notin {"%", "_"})
        => {row.id : row \in Rows(resp.locals.clients)}
                = {c.id : c \in {x \in clients : SatisfiesActive(x, resp.req)}}

\* C8: a search that is empty or only whitespace gives the same listing as
\* no search, and the status "all" the same listing as no status: each
\* listing rendered for the one is an answer of the store to the query
\* composed for the other.
BlankSearches == {<<>>, <<" ">>, <<" ", " ">>}

C8_BlankIsOmitted ==
    Listing(resp) =>
        LET q == resp.req
            rows == resp.locals.clients
        IN  /\ q.search \in BlankSearches
                => rows \in SelectClients(BuildQuery([q EXCEPT !.search = UndefinedText]))
            /\ q.search = UndefinedText
                => \A blank \in BlankSearches :
                      rows \in SelectClients(BuildQuery([q EXCEPT !.search = blank]))
            /\ q.status = "all"
                => rows \in SelectClients(BuildQuery([q EXCEPT !.status = Undefined]))
            /\ q.status = Undefined
                => rows \in SelectClients(BuildQuery([q EXCEPT !.status = "all"]))

C8_Witness ==
    /\ Listing(resp)
    /\ resp.req.search = <<" ", " ">>
    /\ resp.req.status = "all"
    /\ resp.req.phone = UndefinedText
    /\ Len(resp.locals.clients) = Cardinality(Fixture)

\* The rows come in the order of `column`, nulls as the greatest value.
InOrder(rows, column, ascending) ==
    \A i, j \in 1 .. Len(rows) :
        i < j => IF ascending THEN ~KeyLess(rows[j], rows[i], column)
                              ELSE ~KeyLess(rows[i], rows[j], column)

SortColumn(sort_by) == IF sort_by = "status" THEN "client_status(name)" ELSE sort_by

\* C9 as stated: the order of a listing is a function of (sort_by,
\* sort_order) only: ascending by identifier when sort_by is absent; by the
\* joined status name when sort_by is "status" and else by the client column
\* sort_by names; and, when sort_by is present, descending exactly when
\* sort_order is "desc".
C9_OrderAsStated ==
    Listing(resp) =>
        LET q == resp.req
        IN  IF q.sort_by = Undefined
            THEN InOrder(resp.locals.clients, "id", TRUE)
            ELSE /\ SortColumn(q.sort_by) \in OrderColumns
                 /\ InOrder(resp.locals.clients, SortColumn(q.sort_by),
                            q.sort_order # "desc")

\* C9 amended: the same with sort_by absent or empty giving the order
\* ascending by identifier whatever sort_order is, and the direction rule
\* applying when sort_by is present and not empty.
C9_OrderOfListing ==
    Listing(resp) =>
        LET q == resp.req
        IN  IF q.sort_by \in {Undefined, ""}
            THEN InOrder(resp.locals.clients, "id", TRUE)
            ELSE /\ SortColumn(q.sort_by) \in OrderColumns
                 /\ InOrder(resp.locals.clients, SortColumn(q.sort_by),
                            q.sort_order # "desc")

C9_Witness ==
    /\ Listing(resp)
    /\ resp.req.sort_by = ""
    /\ resp.req.sort_order = "desc"
    /\ Len(resp.locals.clients) = Cardinality(Fixture)
    /\ \A i \in 1 .. Len(resp.locals.clients) : resp.locals.clients[i].id = i

\* C10: end to end on the guarded server.  A successful create puts the
\* record in the table under a fresh identifier, with a null status when
\* none was submitted; a successful update to an existing status leaves the
\* record with that status; a successful delete removes it, and its
\* identifier is never assigned again.  A listing read without filters holds
\* every record of the table, with no status name for a null status; one
\* filtered by a status holds every record of that status; and no listing
\* holds a record that is not in the table when it is read.
C10_Table ==
    /\ \A c \in clients : c.id \in 1 .. clientSeq
    /\ Succeeded(resp, "POST /clients") =>
            \E c \in clients :
                /\ c.id = clientSeq
                /\ c.full_name = resp.req.full_name
                /\ c.phone_number = resp.req.phone_number
                /\ resp.req.status_id \in {Undefined, ""} => c.status_id = NULL
    /\ (Succeeded(resp, "PUT /clients/:id") /\ resp.req.status_id \in StatusIds) =>
            \A c \in clients : c.id = resp.req.id => c.status_id = resp.req.status_id
    /\ Succeeded(resp, "DELETE /clients/:id") =>
            \A c \in clients : c.id # resp.req.id

C10_Read ==
    /\ clientSeq' >= clientSeq
    /\ \A c \in clients' : c.id > clientSeq => c \notin clients
    /\ \A r \in DOMAIN reqs :
        (server = "auth" /\ reqs[r] = Idle /\ reqs'[r] # Idle
                         /\ reqs'[r].route = "GET /clients") =>
            LET q == reqs'[r].params
                listed == Rows(reqs'[r].data.rows)
            IN  /\ \A row \in listed : \E c \in clients : row = Embed(c)
                /\ \A row \in listed : row.status_id = NULL => row.client_status = {}
                /\ q = NoFilter => \A c \in clients : Embed(c) \in listed
                /\ \A st \in StatusIds :
                      q = [NoFilter EXCEPT !.status = st] =>
                          \A c \in clients : c.status_id = st => Embed(c) \in listed

C10_CreateListUpdateDelete == []C10_Table /\ [][C10_Read]_vars

\* The first record was created and deleted, the second is listed under the
\* status it was given, and the first is not.
C10_Witness ==
    /\ server = "auth"
    /\ Listing(resp)
    /\ resp.req.status = "1"
    /\ clientSeq = 2
    /\ {row.id : row \in Rows(resp.locals.clients)} = {2}
    /\ {c.id : c \in clients} = {2}

\* C11: for every client-record operation that passes the guard: when a
\* store call fails, the response is the failure's message (no view, no
\* redirect) and the failed call is the request's last; when no call fails,
\* create, update and delete answer with the redirect to /clients.
C11_StoreFailure ==
    /\ \A r \in DOMAIN reqs :
          reqs[r].route \in ProtectedRoutes => "error" \notin Rows(reqs[r].io)
    /\ (resp.route \in ProtectedRoutes /\ resp.io # <<>>) =>
          IF "error" \in Rows(resp.io)
          THEN /\ resp.kind = "send"
               /\ resp.to = StoreError
               /\ \A i \in 1 .. Len(resp.io) : resp.io[i] = "error" <=> i = Len(resp.io)
          ELSE resp.route \in {"POST /clients", "PUT /clients/:id", "DELETE /clients/:id"}
                    => Succeeded(resp, resp.route)

C11_Witness ==
    /\ server = "auth"
    /\ resp.route = "GET /clients"
    /\ resp.io = <<"data", "error">>
    /\ resp.kind = "send"
    /\ resp.to = StoreError

\* C12: the fetch of the edit form for an identifier succeeds only when
\* exactly one client record has that identifier, and only then is the form
\* rendered, with that record; when zero or several records match, the
\* fetch fails, the failure's message is the response, the status collection
\* is not read and the form is not rendered.
C12_Fetch ==
    \A s \in SessionIds :
        (/\ server = "index" \/ sessions[s] # NoUser
         /\ Arrived(s, "GET /clients/:id/edit")) =>
            IF reqs' # reqs
            THEN \E r \in DOMAIN reqs :
                    /\ reqs'[r] # reqs[r]
                    /\ reqs'[r].io = <<"data">>
                    /\ Cardinality({c \in clients : c.id = reqs'[r].params.id}) = 1
                    /\ reqs'[r].data.client \in clients
                    /\ reqs'[r].data.client.id = reqs'[r].params.id
            ELSE /\ resp'.kind = "send"
                 /\ resp'.to = StoreError
                 /\ resp'.io = <<"error">>

C12_Form ==
    (resp.route = "GET /clients/:id/edit" /\ resp.kind = "render") =>
        /\ resp.to = "clients/edit"
        /\ resp.io = <<"data", "data">>
        /\ resp.locals.client.id = resp.req.id
        /\ resp.locals.statuses = SelectStatuses

C12_SingleRowFetch == []C12_Form /\ [][C12_Fetch]_vars

\* A record exists, and the form of another identifier is asked for.
C12_Witness ==
    /\ server = "auth"
    /\ resp.route = "GET /clients/:id/edit"
    /\ resp.kind = "send"
    /\ resp.io = <<"error">>
    /\ clients # {}
    /\ \A c \in clients : c.id # resp.req.id

\* C13: a logout requested in any state of its session (anonymous, with or
\* without an earlier login, or authenticated) is answered with a redirect
\* in the step it arrives, and leaves that session anonymous; and no state
\* of the sessions stops a logout from being served.
C13_Served ==
    (server = "auth" /\ budget # 0) => \A s \in SessionIds : ENABLED GetLogout(s)

C13_Step ==
    \A s \in SessionIds :
        Arrived(s, "GET /logout") =>
            /\ resp' = Redirect(Request("GET /logout", s, NoParams), "/")
            /\ sessions'[s] = NoUser
            /\ reqs' = reqs

C13_LogoutAlwaysSucceeds == []C13_Served /\ [][C13_Step]_vars

\* A logout in a session for which no login ever happened: no user exists.
C13_Witness ==
    /\ resp.route = "GET /logout"
    /\ resp.kind = "redirect"
    /\ users = {}
    /\ sessions[resp.sid] = NoUser

\* C14: in every reachable state, under every interleaving of registration
\* requests (each a lookup followed later by an insert), no two user rows
\* have the same email and no two user rows have the same username.
C14_UniqueUsers ==
    \A u, v \in users :
        u # v => u.email # v.email /\ u.username # v.username

\* C14 for the registrations whose lookup was answered with data: the
\* interleaving alone, without a failed lookup.
C14_UniqueWhenLookedUp ==
    [][(\E r \in DOMAIN reqs :
            /\ reqs[r].route = "POST /register"
            /\ reqs'[r] = Idle
            /\ reqs[r].io = <<"data">>
            /\ users' # users)
        => (C14_UniqueUsers => C14_UniqueUsers')]_vars

\* The status rows in the order of their identifiers.
StatusesById(seq) ==
    /\ Rows(seq) = ClientStatus
    /\ Len(seq) = Cardinality(ClientStatus)
    /\ \A i, j \in 1 .. Len(seq) : i < j => Num(seq[i].id) < Num(seq[j].id)

\* The response answers a list request that passed the guard.
ListAnswered(rs) == rs.route = "GET /clients" /\ rs.io # <<>>

\* C15 as stated: on every list request that passes the guard the status
\* collection is read, ordered by identifier, for every combination of
\* filter and sort parameters and for every outcome of the main client
\* query, and a failure of the status read is reported whether or not the
\* main query failed.
C15_StatusReadAlways ==
    ListAnswered(resp) =>
        /\ Len(resp.io) = 2
        /\ resp.io[2] = "error" => resp.kind = "send" /\ resp.to = StoreError
        /\ resp.kind = "render" => StatusesById(resp.locals.statuses)

\* C15 amended: the status collection is read, ordered by identifier, on
\* every list request that passes the guard and whose main client query
\* succeeds, whatever the filter and sort parameters are, and a failure of
\* that read is reported; when the main query fails its failure is the
\* response and the status collection is not read.
C15_StatusReadAfterQuery ==
    /\ ListAnswered(resp) =>
          IF resp.io[1] = "data"
          THEN /\ Len(resp.io) = 2
               /\ IF resp.io[2] = "error"
                  THEN resp.kind = "send" /\ resp.to = StoreError
                  ELSE resp.kind = "render" /\ StatusesById(resp.locals.statuses)
          ELSE /\ resp.io = <<"error">>
               /\ resp.kind = "send"
               /\ resp.to = StoreError
    /\ \A r \in DOMAIN reqs :
          reqs[r].route = "GET /clients" =>
              /\ reqs[r].io = <<"data">>
              /\ ENABLED GetClientsStatuses(r)

\* The main query succeeded with filters and a sort, and the status read
\* failed.
C15_Witness ==
    /\ ListAnswered(resp)
    /\ resp.io = <<"data", "error">>
    /\ resp.kind = "send"
    /\ resp.req.status = "1"
    /\ resp.req.sort_by = "status"
    /\ resp.req.sort_order = "desc"

\* The records of the table but the one of identifier i.
Others(table, i) == {c \in table : c.id # i}

\* C16: an update with identifier i changes only the full name, the phone
\* number and the status reference of the record of identifier i, and a
\* delete with identifier i removes only that record: every other client
\* record and every user row are as before (no handler writes the status
\* rows), and when no record has identifier i the table is unchanged and the
\* response is still the redirect to /clients.
C16_Frame ==
    (reqs' = reqs /\ resp'.route \in {"PUT /clients/:id", "DELETE /clients/:id"}) =>
        LET i == resp'.req.id
        IN  /\ users' = users
            /\ clientSeq' = clientSeq
            /\ Others(clients', i) = Others(clients, i)
            /\ resp'.route = "PUT /clients/:id" =>
                  {c.id : c \in clients'} = {c.id : c \in clients}
            /\ (resp'.route = "DELETE /clients/:id" /\ clients' # clients) =>
                  clients' = Others(clients, i)
            /\ (\A c \in clients : c.id # i) =>
                  /\ clients' = clients
                  /\ resp'.io = <<"data">> => Succeeded(resp', resp'.route)

C16_OnlyTheRecord == [][C16_Frame]_vars

\* An update of an identifier that no record has, next to a record.
C16_Witness ==
    /\ server = "auth"
    /\ Succeeded(resp, "PUT /clients/:id")
    /\ resp.req.status_id = "2"
    /\ clients # {}
    /\ \A c \in clients : c.id # resp.req.id /\ c.status_id # "2"

\* The slot in which the arriving request of this step is suspended, if it is.
Taken(r) == reqs[r] = Idle /\ reqs'[r] # Idle

\* In this step a request of session s arrives (see Arrived), and its route.
ArrivedBy(s) ==
    /\ budget' # budget
    /\ IF reqs' # reqs
       THEN \E r \in DOMAIN reqs : Taken(r) /\ reqs'[r].sid = s
       ELSE resp'.sid = s

ArrivedRoute ==
    IF reqs' # reqs
    THEN reqs'[CHOOSE r \in DOMAIN reqs : Taken(r)].route
    ELSE resp'.route

\* The step belongs to a request of session s: the request arrives, or it
\* resumes from an await and is answered.
StepOf(s) ==
    \/ ArrivedBy(s)
    \/ \E r \in DOMAIN reqs : reqs[r] # Idle /\ reqs[r].sid = s /\ reqs'[r] = Idle

\* C17: for two distinct sessions A and B, no step of a request of A (a
\* login, a failed login, a logout, or any other) changes whether B is
\* authenticated or the identity B holds: the session of B changes only in
\* steps of B's own requests, and B's request to a protected route is
\* redirected exactly when B's own session holds no user.
C17_Step ==
    \A B \in SessionIds :
        /\ sessions'[B] # sessions[B] =>
              /\ StepOf(B)
              /\ \A A \in SessionIds \ {B} : ~StepOf(A)
        /\ (server = "auth" /\ ArrivedBy(B) /\ ArrivedRoute \in ProtectedRoutes) =>
              (sessions[B] = NoUser <=> GuardRedirect(B, ArrivedRoute))

C17_SessionsAreIndependent == [][C17_Step]_vars

\* A is logged in, and B, which is not, has just been redirected.
C17_Witness ==
    \E A \in SessionIds :
        /\ A # resp.sid
        /\ sessions[A] # NoUser
        /\ resp.sid \in SessionIds
        /\ sessions[resp.sid] = NoUser
        /\ resp.route \in ProtectedRoutes
        /\ resp.kind = "redirect"
        /\ resp.to = "/login"

\* C18: a registration inserts a user row only after its existence lookup
\* was answered successfully and reported no user of the same email or the
\* same username; when the lookup itself fails, no user row is inserted.
C18_InsertAfterCheck ==
    [][\A r \in DOMAIN reqs :
          (reqs[r].route = "POST /register" /\ reqs'[r] = Idle /\ users' # users)
              => /\ reqs[r].io = <<"data">>
                 /\ reqs[r].data.existingUser = {}]_vars

====
